---------------------------- MODULE Spec2Model ----------------------------
(***************************************************************************)
(* A model of t2t/mark_ranks.py (class MarkRanks): the rank-propagation    *)
(* algorithm mark() and its helpers, on small rooted trees.                *)
(*                                                                         *)
(* Node names are sequences of one-character strings, so that the string   *)
(* operations of the code (in, split, join, +, float(), int(), str()) are  *)
(* modelled by what they do.  Branch lengths and distances are exact       *)
(* rationals <<numerator, denominator>> (the code uses Python floats).     *)
(***************************************************************************)
EXTENDS Integers, Sequences, FiniteSets, TLC

(***************************************************************************)
(* Bounds of the generated input trees.                                    *)
(***************************************************************************)
MaxNodes == 4
MaxLen == 2

(***************************************************************************)
(* Rationals.                                                              *)
(***************************************************************************)
Abs(x) == IF x < 0 THEN -x ELSE x

RECURSIVE Gcd(_, _)
Gcd(a, b) == IF b = 0 THEN a ELSE Gcd(b, a % b)

Norm(n, d) ==
    LET g == Gcd(Abs(n), d)
    IN  IF n = 0 THEN <<0, 1>> ELSE <<n \div g, d \div g>>

Rat(i) == <<i, 1>>
RAdd(x, y) == Norm(x[1] * y[2] + y[1] * x[2], x[2] * y[2])
RSub(x, y) == Norm(x[1] * y[2] - y[1] * x[2], x[2] * y[2])
RDivInt(x, k) == Norm(x[1], x[2] * k)
RLe(x, y) == x[1] * y[2] <= y[1] * x[2]
RLt(x, y) == x[1] * y[2] < y[1] * x[2]
RZero == <<0, 1>>

RECURSIVE RSum(_)
RSum(s) == IF s = <<>> THEN RZero ELSE RAdd(Head(s), RSum(Tail(s)))

(***************************************************************************)
(* Python string operations on names (sequences of characters).            *)
(***************************************************************************)
\* Python's None as a name (never equal to a real name, whose elements are
\* single characters), and as a parent.
None == <<"<None>">>
NoNode == 0

Contains(s, c) == \E i \in 1..Len(s) : s[i] = c

RECURSIVE Split(_, _)
Split(s, c) ==
    IF ~Contains(s, c) THEN <<s>>
    ELSE LET i == CHOOSE k \in 1..Len(s) :
                      s[k] = c /\ \A j \in 1..(k - 1) : s[j] # c
         IN  <<SubSeq(s, 1, i - 1)>> \o Split(SubSeq(s, i + 1, Len(s)), c)

RECURSIVE Join(_, _)
Join(parts, c) ==
    IF parts = <<>> THEN <<>>
    ELSE IF Len(parts) = 1 THEN parts[1]
    ELSE parts[1] \o <<c>> \o Join(Tail(parts), c)

Digits == <<"0", "1", "2", "3", "4", "5", "6", "7", "8", "9">>
IsDigit(c) == \E i \in 1..10 : Digits[i] = c
DigitVal(c) == (CHOOSE i \in 1..10 : Digits[i] = c) - 1

RECURSIVE DigitsToNat(_)
DigitsToNat(s) ==
    IF s = <<>> THEN 0
    ELSE 10 * DigitsToNat(SubSeq(s, 1, Len(s) - 1)) + DigitVal(s[Len(s)])

RECURSIVE NatToDigits(_)
NatToDigits(n) ==
    IF n < 10 THEN <<Digits[n + 1]>>
    ELSE NatToDigits(n \div 10) \o <<Digits[(n % 10) + 1]>>

AllDigits(s) == \A i \in 1..Len(s) : IsDigit(s[i])

\* int(s) of a str: defined on non-empty digit strings, ValueError otherwise.
IntOfStrOk(s) == Len(s) >= 1 /\ AllDigits(s)

\* float(s) of a str: digits with at most one '.', at least one digit.
FloatOk(s) ==
    /\ Len(s) >= 1
    /\ \A i \in 1..Len(s) : IsDigit(s[i]) \/ s[i] = "."
    /\ Cardinality({i \in 1..Len(s) : s[i] = "."}) <= 1
    /\ \E i \in 1..Len(s) : IsDigit(s[i])

\* The float value of s as [ip |-> integer part, fr |-> fraction digits
\* without trailing zeros].
RECURSIVE StripZeros(_)
StripZeros(s) ==
    IF s # <<>> /\ s[Len(s)] = "0" THEN StripZeros(SubSeq(s, 1, Len(s) - 1))
    ELSE s

FloatOf(s) ==
    LET parts == Split(s, ".")
    IN  [ip |-> DigitsToNat(parts[1]),
         fr |-> IF Len(parts) = 2 THEN StripZeros(parts[2]) ELSE <<>>]

\* str(f), int(f) and the truth value of a float.
StrOfFloat(f) ==
    NatToDigits(f.ip) \o <<".">> \o (IF f.fr = <<>> THEN <<"0">> ELSE f.fr)
IntOfFloat(f) == f.ip
FloatTruthy(f) == f.ip # 0 \/ f.fr # <<>>

(***************************************************************************)
(* The tree (skbio TreeNode): parent, children, length and name of every   *)
(* node, as functions of the node's id.  The root is node 1.               *)
(***************************************************************************)
Root == 1
NoLength == <<0, 0>>

is_tip(ch, n) == ch[n] = <<>>

\* list(node.preorder()): the nodes under the nodes of stack, in preorder.
RECURSIVE PreorderFrom(_, _)
PreorderFrom(ch, stack) ==
    IF stack = <<>> THEN <<>>
    ELSE <<Head(stack)>> \o PreorderFrom(ch, ch[Head(stack)] \o Tail(stack))

Range(s) == {s[i] : i \in 1..Len(s)}

\* node.tips(): the tips under a node, in order.
TipsOf(ch, n) ==
    LET IsTip(m) == ch[m] = <<>>
    IN  SelectSeq(PreorderFrom(ch, ch[n]), IsTip)

\* n.accumulate_to_ancestor(anc): the sum of the branch lengths from n up to
\* (not including) anc.
RECURSIVE accumulate_to_ancestor(_, _, _, _)
accumulate_to_ancestor(par, len, n, anc) ==
    IF n = anc THEN RZero
    ELSE RAdd(len[n], accumulate_to_ancestor(par, len, par[n], anc))

\* n.ancestors(): parent, grandparent, ... up to the root.
RECURSIVE AncestorsOf(_, _)
AncestorsOf(par, n) ==
    IF par[n] = NoNode THEN <<>>
    ELSE <<par[n]>> \o AncestorsOf(par, par[n])

\* root.find(label): the node of the tree with that name, NoNode when
\* there is none (MissingNodeError).
Find(ch, nm, label) ==
    LET hits == {n \in Range(PreorderFrom(ch, <<Root>>)) : nm[n] = label}
    IN  IF hits = {} THEN NoNode ELSE CHOOSE n \in hits : TRUE

RemoveFromSeq(s, x) ==
    LET Keep(y) == y # x IN SelectSeq(s, Keep)

(***************************************************************************)
(* MarkRanks.                                                              *)
(***************************************************************************)
rank_prefixes ==
    << <<"D", "_", "_">>, <<"P", "_", "_">>, <<"C", "_", "_">>,
       <<"O", "_", "_">>, <<"F", "_", "_">>, <<"G", "_", "_">>,
       <<"S", "_", "_">>, <<"S", "T", "_", "_">> >>

\* self.rank_prefixes[i], 0-based.
RankPrefix(i) == rank_prefixes[i + 1]

\* self.rank_prefixes.index(tok), 0-based; -1 stands for ValueError.
RankIndex(tok) ==
    IF \E i \in 1..Len(rank_prefixes) : rank_prefixes[i] = tok
    THEN (CHOOSE i \in 1..Len(rank_prefixes) : rank_prefixes[i] = tok) - 1
    ELSE -1

num_intervals == 5

\* _mean_dist_to_leaves(node): 0 for a tip, else the mean distance from the
\* node to the tips under it.
MeanDistToLeaves(par, ch, len, node) ==
    IF is_tip(ch, node) THEN RZero
    ELSE LET tips == TipsOf(ch, node)
             dist == [i \in 1..Len(tips) |->
                          accumulate_to_ancestor(par, len, tips[i], node)]
         IN  RDivInt(RSum(dist), Len(tips))

\* _marked_parent(node): the rank suffix of the first ancestor that does not
\* have exactly one child and whose name holds '|'; None when there is none.
\* <<"error">> stands for the ValueError of unpacking a split into other
\* than two parts.
SplitError == <<"<error>">>

RECURSIVE MarkedParentFrom(_, _, _, _)
MarkedParentFrom(par, ch, nm, p) ==
    IF p = NoNode THEN None
    ELSE IF Len(ch[p]) # 1 /\ Contains(nm[p], "|")
         THEN LET parts == Split(nm[p], "|")
              IN  IF Len(parts) = 2 THEN parts[2] ELSE SplitError
         ELSE MarkedParentFrom(par, ch, nm, par[p])

MarkedParent(par, ch, nm, node) == MarkedParentFrom(par, ch, nm, par[node])

\* _mark_rank without lines 246-256: the suffix is the single rank token.
BackFill_SingleToken(parent_ranks, rank_prefix) == rank_prefix

\* The back-filled rank suffix of _mark_rank (lines 246-256).
BackFill(parent_ranks, rank_prefix) ==
    LET cur_rank_index == RankIndex(rank_prefix)
    IN  IF parent_ranks # None /\ parent_ranks # <<>>
        THEN LET ranks == Split(parent_ranks, ";")
                 deepest_rank_index == RankIndex(ranks[Len(ranks)])
             IN  IF deepest_rank_index < cur_rank_index
                 THEN Join(SubSeq(rank_prefixes, deepest_rank_index + 2,
                                  cur_rank_index + 1), ";")
                 ELSE rank_prefix
        ELSE Join(SubSeq(rank_prefixes, 1, cur_rank_index + 1), ";")

\* The bootstrap support and taxon text _mark_rank reads from a name (lines
\* 232-240): ok is FALSE where the code raises ValueError.
ParseName(s) ==
    IF Contains(s, ":")
    THEN LET parts == Split(s, ":")
         IN  IF Len(parts) = 2 /\ IntOfStrOk(parts[1])
             THEN [ok |-> TRUE, int |-> DigitsToNat(parts[1]), truthy |-> TRUE,
                   str |-> parts[1], taxa_str |-> parts[2]]
             ELSE [ok |-> FALSE, int |-> 0, truthy |-> FALSE,
                   str |-> <<>>, taxa_str |-> None]
    ELSE IF FloatOk(s)
         THEN [ok |-> TRUE, int |-> IntOfFloat(FloatOf(s)),
               truthy |-> FloatTruthy(FloatOf(s)),
               str |-> StrOfFloat(FloatOf(s)), taxa_str |-> None]
         ELSE [ok |-> TRUE, int |-> 0, truthy |-> FALSE,
               str |-> <<"0">>, taxa_str |-> s]

\* The name _mark_rank writes (lines 258-265).
AppendRank(old, b, ranks) ==
    LET base == IF b.truthy THEN b.str \o <<":">> ELSE old
    IN  IF b.taxa_str # None /\ b.taxa_str # <<>>
        THEN base \o b.taxa_str \o <<"|">> \o ranks
        ELSE base \o <<"|">> \o ranks

\* _mark_rank without the test of line 218: tips are marked too.
MarkRank_TipsMarked(par, ch, nm, node, rank_prefix, support) ==
    LET b == ParseName(nm[node])
        parent_ranks == MarkedParent(par, ch, nm, node)
        Result(st, s) == [st |-> st, name |-> s]
    IN  IF rank_prefix = RankPrefix(6) THEN Result("return", nm[node])
        ELSE IF Contains(nm[node], "|") THEN Result("exit", nm[node])
        ELSE IF ~b.ok THEN Result("error", nm[node])
        ELSE IF b.int < support THEN Result("return", nm[node])
        ELSE IF parent_ranks = SplitError THEN Result("error", nm[node])
        ELSE Result("marked",
                    AppendRank(nm[node], b, BackFill(parent_ranks, rank_prefix)))

\* _mark_rank(node, rank_prefix, min_support): what the call does, and the
\* node's name after it.  "return": refused, nothing changes; "marked": the
\* name is rewritten; "exit": sys.exit(); "error": an uncaught ValueError.
MarkRank(par, ch, nm, node, rank_prefix, support) ==
    LET b == ParseName(nm[node])
        parent_ranks == MarkedParent(par, ch, nm, node)
        Result(st, s) == [st |-> st, name |-> s]
    IN  IF is_tip(ch, node) THEN Result("return", nm[node])
        ELSE IF rank_prefix = RankPrefix(6) THEN Result("return", nm[node])
        ELSE IF Contains(nm[node], "|") THEN Result("exit", nm[node])
        ELSE IF ~b.ok THEN Result("error", nm[node])
        ELSE IF b.int < support THEN Result("return", nm[node])
        ELSE IF parent_ranks = SplitError THEN Result("error", nm[node])
        ELSE Result("marked",
                    AppendRank(nm[node], b, BackFill(parent_ranks, rank_prefix)))

(***************************************************************************)
(* The inputs of mark(): a tree, the anchor labels, the anchors' rank and  *)
(* the minimum support.                                                    *)
(***************************************************************************)
RECURSIVE SortedSeq(_)
SortedSeq(S) ==
    IF S = {} THEN <<>>
    ELSE LET m == CHOOSE x \in S : \A y \in S : x <= y
         IN  <<m>> \o SortedSeq(S \ {m})

Taxon(i) == <<"n", Digits[i + 1]>>

\* The names of a generated tree's nodes, by naming style: taxon text only
\* (1), or a mix of the forms a name takes: 'support:taxon', support only,
\* unnamed (2 and 3).
NameOf(style, i) ==
    IF style = 2 /\ i = 2 THEN <<"9", "0", ":">> \o Taxon(i)
    ELSE IF style = 2 /\ i = 3 THEN <<"5", "0">>
    ELSE IF style = 2 /\ i = 4 THEN <<"1", "0", ":">> \o Taxon(i)
    ELSE IF style = 3 /\ i = 2 THEN <<"0">>
    ELSE IF style = 3 /\ i = 3 THEN None
    ELSE IF style = 3 /\ i = 4 THEN <<"7", "3">>
    ELSE Taxon(i)

\* The tree of n nodes in which node i > 1 hangs under pv[i] < i with
\* branch length lv[i]; a node's children are in the order of their ids.
MkTree(n, pv, lv, style) ==
    [parent   |-> [i \in 1..n |-> IF i = 1 THEN NoNode ELSE pv[i]],
     children |-> [i \in 1..n |-> SortedSeq({j \in 2..n : pv[j] = i})],
     length   |-> [i \in 1..n |-> IF i = 1 THEN NoLength ELSE Rat(lv[i])],
     name     |-> [i \in 1..n |-> NameOf(style, i)]]

GeneratedTrees(style) ==
    UNION {{MkTree(n, pv, lv, style) :
                pv \in {f \in [2..n -> 1..(n - 1)] : \A i \in 2..n : f[i] < i},
                lv \in [2..n -> 0..MaxLen]} : n \in 2..MaxNodes}

\* A tree from its nodes' parents, lengths and names, in preorder.
TreeOf(pv, lv, nv) ==
    LET n == Len(pv)
    IN  [parent   |-> [i \in 1..n |-> pv[i]],
         children |-> [i \in 1..n |-> SortedSeq({j \in 1..n : pv[j] = i})],
         length   |-> [i \in 1..n |-> IF i = 1 THEN NoLength ELSE Rat(lv[i])],
         name     |-> [i \in 1..n |-> nv[i]]]

\* ((a:5,b:5)t1:1,(c:1,d:1)t2:5)root;  (test_mark_ultrametric)
UltrametricTree ==
    TreeOf(<<0, 1, 2, 2, 1, 5, 5>>, <<0, 1, 5, 5, 5, 1, 1>>,
           <<(<<"r", "o", "o", "t">>), <<"t", "1">>, <<"a">>, <<"b">>,
             <<"t", "2">>, <<"c">>, <<"d">> >>)

\* (((a:1,b:1)c:1)d:1,(e:1,f:1)g:1)r;  (test_remove_dummy_nodes)
DummyTestTree ==
    TreeOf(<<0, 1, 2, 3, 3, 1, 6, 6>>, <<0, 1, 1, 1, 1, 1, 1, 1>>,
           << <<"r">>, <<"d">>, <<"c">>, <<"a">>, <<"b">>, <<"g">>,
              <<"e">>, <<"f">> >>)

\* (((a:1,b:1)x:5,c:1)m:9,d:7)root;
NestedTree ==
    TreeOf(<<0, 1, 2, 3, 3, 2, 1>>, <<0, 9, 5, 1, 1, 1, 7>>,
           <<(<<"r", "o", "o", "t">>), <<"m">>, <<"x">>, <<"a">>, <<"b">>,
             <<"c">>, <<"d">> >>)

\* ((a:1,b:1)10:x|P__:1,c:2)root;  a tree that already holds a rank label
LabelledTree ==
    TreeOf(<<0, 1, 2, 2, 1>>, <<0, 1, 1, 1, 2>>,
           <<(<<"r", "o", "o", "t">>),
             <<"1", "0", ":", "x", "|", "P", "_", "_">>, <<"a">>, <<"b">>,
             <<"c">> >>)

ScenarioTrees == {UltrametricTree, DummyTestTree, NestedTree, LabelledTree}

bad_label == <<"b", "a", "d", "_", "l", "a", "b", "e", "l">>

\* The anchor lists tried on a tree: one label, or (with pairs) two
\* distinct labels, each the name of a node of nodes or a label no node has.
AnchorLists(t, nodes, pairs) ==
    LET labels == {t.name[i] : i \in {j \in nodes : t.name[j] # None}}
                      \cup {bad_label}
    IN  {<<a>> : a \in labels}
            \cup {p \in {<<a, b>> : a \in labels, b \in labels} :
                      pairs /\ p[1] # p[2]}

Internal(t) == {i \in DOMAIN t.parent : t.children[i] # <<>>}

StartRanks == {0, 3}

Input(t, labels, rank, support) ==
    [tree |-> t, start_labels |-> labels, start_rank |-> rank,
     min_support |-> support]

AllNodes(t) == DOMAIN t.parent

\* The inputs tried on the trees of ts: every anchor list over the nodes of
\* a tree (its internal nodes with internal_only), every start rank, every
\* support of supports.
InputsOn(ts, internal_only, pairs, supports) ==
    UNION {{Input(t, l, r, s) :
                l \in AnchorLists(t, IF internal_only THEN Internal(t)
                                     ELSE AllNodes(t), pairs),
                r \in StartRanks, s \in supports} : t \in ts}

Inputs ==
    InputsOn(GeneratedTrees(1), FALSE, TRUE, {0})
        \cup InputsOn(GeneratedTrees(2), FALSE, FALSE, {50, 95})
        \cup InputsOn(GeneratedTrees(3), FALSE, FALSE, {0})
        \cup InputsOn(ScenarioTrees, TRUE, TRUE, {0, 50})

(***************************************************************************)
(* The state of one call of mark().                                        *)
(***************************************************************************)
VARIABLES
    parent, children, length, name,   \* the tree
    dist_to_parent_rank,              \* the scratch attribute of the nodes
    start_labels, start_rank, min_support,
    pc,                               \* where the call is
    label_idx, start_nodes,           \* the loop over start_labels
    nodes_at_cur_rank, cur_rank,
    immediate_child_lineages,         \* the lineage heads still to process
    next_nodes,
    child_lineage, dist_to_current_rank, dist_to_child_rank,
    nodes_to_process, nodes_above_child_rank,
    preorder, preorder_idx,           \* the loop of __remove_dummy_nodes
    consistent,                       \* what __assess_consistency printed
    input,                            \* the tree as passed in
    visit,                            \* the last node a walk popped
    predicted                         \* the rank each node was last given

tree_vars == <<parent, children, length, name>>
walk_vars == <<child_lineage, dist_to_current_rank, dist_to_child_rank,
               nodes_to_process, nodes_above_child_rank>>
vars == <<parent, children, length, name, dist_to_parent_rank,
          start_labels, start_rank, min_support, pc, label_idx, start_nodes,
          nodes_at_cur_rank, cur_rank, immediate_child_lineages, next_nodes,
          child_lineage, dist_to_current_rank, dist_to_child_rank,
          nodes_to_process, nodes_above_child_rank, preorder, preorder_idx,
          consistent, input, visit, predicted>>

NoVisit == [node |-> NoNode, dist |-> RZero, rank |-> -1, st |-> "none",
            before |-> <<>>, parent_ranks |-> None]

Init ==
    \E in \in Inputs :
        /\ parent = in.tree.parent
        /\ children = in.tree.children
        /\ length = in.tree.length
        /\ name = in.tree.name
        /\ dist_to_parent_rank = [n \in DOMAIN in.tree.parent |-> NoLength]
        /\ start_labels = in.start_labels
        /\ start_rank = in.start_rank
        /\ min_support = in.min_support
        /\ pc = "resolve"
        /\ label_idx = 1
        /\ start_nodes = <<>>
        /\ nodes_at_cur_rank = {}
        /\ cur_rank = in.start_rank
        /\ immediate_child_lineages = {}
        /\ next_nodes = {}
        /\ child_lineage = NoNode
        /\ dist_to_current_rank = RZero
        /\ dist_to_child_rank = RZero
        /\ nodes_to_process = <<>>
        /\ nodes_above_child_rank = {}
        /\ preorder = <<>>
        /\ preorder_idx = 1
        /\ consistent = "not run"
        /\ input = in.tree
        /\ visit = NoVisit
        /\ predicted = [n \in DOMAIN in.tree.parent |-> -1]

(***************************************************************************)
(* mark(), lines 291-309: resolving the anchors.                           *)
(***************************************************************************)
input_vars == <<start_labels, start_rank, min_support, input>>
history_vars == <<visit, predicted>>
rank_vars == <<nodes_at_cur_rank, cur_rank, immediate_child_lineages,
               next_nodes>>
remove_vars == <<preorder, preorder_idx, consistent>>

\* One pass of the loop over start_labels: the label's node is tagged with
\* the start rank as soon as it is found; a label no node has ends the call
\* (return None).
ResolveLabel ==
    /\ pc = "resolve"
    /\ label_idx <= Len(start_labels)
    /\ LET start_node == Find(children, name, start_labels[label_idx])
       IN  IF start_node = NoNode
           THEN /\ pc' = "failed"
                /\ UNCHANGED <<name, dist_to_parent_rank, start_nodes,
                               label_idx>>
           ELSE /\ name' = [name EXCEPT ![start_node] =
                                @ \o <<"|">> \o RankPrefix(start_rank)]
                /\ dist_to_parent_rank' =
                       [dist_to_parent_rank EXCEPT ![start_node] = RZero]
                /\ start_nodes' = Append(start_nodes, start_node)
                /\ label_idx' = label_idx + 1
                /\ pc' = pc
    /\ UNCHANGED <<parent, children, length, input_vars, rank_vars,
                   walk_vars, remove_vars, history_vars>>

\* Lines 303-309: the anchors are the first active set; unnamed nodes get
\* the empty name.
BeginMark ==
    /\ pc = "resolve"
    /\ label_idx > Len(start_labels)
    /\ nodes_at_cur_rank' = Range(start_nodes)
    /\ name' = [n \in DOMAIN name |-> IF name[n] = None THEN <<>> ELSE name[n]]
    /\ cur_rank' = start_rank
    /\ pc' = "rank"
    /\ UNCHANGED <<parent, children, length, dist_to_parent_rank, input_vars,
                   label_idx, start_nodes, immediate_child_lineages,
                   next_nodes, walk_vars, remove_vars, history_vars>>

(***************************************************************************)
(* mark(), lines 313-399: one rank after the other.                        *)
(***************************************************************************)
\* Lines 317-326: the children of the active nodes that are not active.
ChildLineagesOf(ch, active) ==
    {c \in UNION {Range(ch[n]) : n \in active} : c \notin active}

\* Lines 333-338: the most basal node of each lineage.
ImmediateChildLineages(par, child_lineages) ==
    {n \in child_lineages : par[n] \notin child_lineages}

\* Lines 313-338: the start of a rank's iteration.  A node of the active set
\* below the current rank ends the call (return None).
ChildLineages ==
    /\ pc = "rank"
    /\ cur_rank < num_intervals
    /\ IF \E n \in nodes_at_cur_rank : RLt(RZero, dist_to_parent_rank[n])
       THEN /\ pc' = "failed"
            /\ UNCHANGED <<dist_to_parent_rank, immediate_child_lineages,
                           next_nodes>>
       ELSE LET child_lineages == ChildLineagesOf(children, nodes_at_cur_rank)
            IN  /\ dist_to_parent_rank' =
                       [n \in DOMAIN dist_to_parent_rank |->
                            IF n \in child_lineages
                            THEN RAdd(dist_to_parent_rank[parent[n]], length[n])
                            ELSE dist_to_parent_rank[n]]
                /\ immediate_child_lineages' =
                       ImmediateChildLineages(parent, child_lineages)
                /\ next_nodes' = {}
                /\ pc' = "lineage"
    /\ UNCHANGED <<tree_vars, input_vars, label_idx, start_nodes,
                   nodes_at_cur_rank, cur_rank, walk_vars, remove_vars, history_vars>>

\* Line 348.
DistToChildRank(dist_to_current, average_dist, rank) ==
    RDivInt(RAdd(dist_to_current, average_dist), num_intervals - rank)

\* Lines 343-357: the next lineage head, in any order (the heads are a set).
PickLineage ==
    /\ pc = "lineage"
    /\ \E h \in immediate_child_lineages :
           /\ child_lineage' = h
           /\ immediate_child_lineages' = immediate_child_lineages \ {h}
           /\ dist_to_current_rank' = dist_to_parent_rank[h]
           /\ dist_to_child_rank' =
                  DistToChildRank(dist_to_parent_rank[h],
                                  MeanDistToLeaves(parent, children, length, h),
                                  cur_rank)
           /\ nodes_to_process' = <<h>>
           /\ nodes_above_child_rank' = {}
    /\ pc' = "walk"
    /\ visit' = NoVisit
    /\ UNCHANGED <<tree_vars, dist_to_parent_rank, input_vars, label_idx,
                   start_nodes, nodes_at_cur_rank, cur_rank, next_nodes,
                   remove_vars, predicted>>

\* Lines 362-365: the distance of a node of the walk from the current rank.
DistFromCurrentRank(n) ==
    IF n = child_lineage THEN dist_to_current_rank
    ELSE RAdd(accumulate_to_ancestor(parent, length, n, child_lineage),
              dist_to_current_rank)

\* Lines 367-373 with '<' for the '<=' of line 368.
RankAt_HalfExclusive(d, to_child_rank, rank) ==
    IF RLe(d, to_child_rank)
    THEN IF RLt(d, RDivInt(to_child_rank, 2)) THEN rank ELSE rank + 1
    ELSE -1

\* Lines 367-373: the rank a node at distance d is marked with, -1 when it
\* is beyond the child rank and not marked.
RankAt(d, to_child_rank, rank) ==
    IF RLe(d, to_child_rank)
    THEN IF RLe(d, RDivInt(to_child_rank, 2)) THEN rank ELSE rank + 1
    ELSE -1

\* Lines 359-382: one pass of the walk's loop.
WalkStep ==
    /\ pc = "walk"
    /\ nodes_to_process # <<>>
    /\ LET n == nodes_to_process[Len(nodes_to_process)]
           rest == SubSeq(nodes_to_process, 1, Len(nodes_to_process) - 1)
           d == DistFromCurrentRank(n)
           r == RankAt(d, dist_to_child_rank, cur_rank)
           res == MarkRank(parent, children, name, n, RankPrefix(r),
                           min_support)
       IN  IF r = -1
           THEN /\ nodes_to_process' = rest
                /\ visit' = [node |-> n, dist |-> d, rank |-> r,
                             st |-> "beyond", before |-> name[n],
                             parent_ranks |-> None]
                /\ UNCHANGED <<name, dist_to_parent_rank,
                               nodes_above_child_rank, pc>>
           ELSE /\ visit' = [node |-> n, dist |-> d, rank |-> r,
                             st |-> res.st, before |-> name[n],
                             parent_ranks |->
                                 MarkedParent(parent, children, name, n)]
                /\ IF res.st \in {"exit", "error"}
                   THEN /\ pc' = IF res.st = "exit" THEN "exit" ELSE "crashed"
                        /\ UNCHANGED <<name, dist_to_parent_rank,
                                       nodes_above_child_rank,
                                       nodes_to_process>>
                   ELSE /\ name' = [name EXCEPT ![n] = res.name]
                        /\ dist_to_parent_rank' =
                               [dist_to_parent_rank EXCEPT ![n] =
                                    RSub(d, dist_to_child_rank)]
                        /\ nodes_above_child_rank' =
                               nodes_above_child_rank \cup {n}
                        /\ nodes_to_process' = rest \o children[n]
                        /\ pc' = pc
    /\ predicted' = IF visit'.rank = -1 THEN predicted
                     ELSE [predicted EXCEPT ![visit'.node] = visit'.rank]
    /\ UNCHANGED <<parent, children, length, input_vars, label_idx,
                   start_nodes, rank_vars, child_lineage,
                   dist_to_current_rank, dist_to_child_rank, remove_vars>>

\* The id of the node created above node in the iteration of rank: a fresh
\* one (a node gets at most one dummy node in one iteration).
NewNodeId(node, rank) == Cardinality(DOMAIN input.parent) * (rank + 1) + node

\* __create_new_node without line 106: the node keeps its branch length.
CreateNewNode_LengthKept(t, node, node_name, dist_to_parent, dummy_node) ==
    LET p == t.parent[node]
    IN  [parent   |-> [t.parent EXCEPT ![node] = dummy_node]
                          @@ (dummy_node :> p),
         children |-> [t.children EXCEPT
                           ![p] = Append(RemoveFromSeq(@, node), dummy_node)]
                          @@ (dummy_node :> <<node>>),
         length   |-> t.length @@ (dummy_node :> dist_to_parent),
         name     |-> t.name @@ (dummy_node :> node_name)]

\* __create_new_node(node, node_name, dist_to_parent): the tree with the new
\* node dummy_node between node and its parent.
CreateNewNode(t, node, node_name, dist_to_parent, dummy_node) ==
    LET p == t.parent[node]
    IN  [parent   |-> [t.parent EXCEPT ![node] = dummy_node]
                          @@ (dummy_node :> p),
         children |-> [t.children EXCEPT
                           ![p] = Append(RemoveFromSeq(@, node), dummy_node)]
                          @@ (dummy_node :> <<node>>),
         length   |-> [t.length EXCEPT ![node] = RSub(@, dist_to_parent)]
                          @@ (dummy_node :> dist_to_parent),
         name     |-> t.name @@ (dummy_node :> node_name)]

Tree == [parent |-> parent, children |-> children, length |-> length,
         name |-> name]

\* Lines 387-390: the name of the dummy node of a lineage.
DummyName(h) ==
    IF ~is_tip(children, h) /\ RankPrefix(cur_rank + 1) # RankPrefix(6)
    THEN name[h] \o <<"|">> \o RankPrefix(cur_rank + 1)
    ELSE name[h]

\* Lines 384-397: the end of a lineage's walk.  When it marked no node, a
\* dummy node is put above the lineage head.
FinishLineage ==
    /\ pc = "walk"
    /\ nodes_to_process = <<>>
    /\ IF nodes_above_child_rank = {}
       THEN LET dist_to_parent ==
                    RSub(dist_to_child_rank,
                         dist_to_parent_rank[parent[child_lineage]])
                t == CreateNewNode(Tree, child_lineage,
                                   DummyName(child_lineage), dist_to_parent,
                                   NewNodeId(child_lineage, cur_rank))
                dummy_node == t.parent[child_lineage]
            IN  /\ parent' = t.parent
                /\ children' = t.children
                /\ length' = t.length
                /\ name' = t.name
                /\ dist_to_parent_rank' =
                       dist_to_parent_rank @@ (dummy_node :> RZero)
                /\ predicted' = predicted @@ (dummy_node :> -1)
                /\ next_nodes' = next_nodes \cup {dummy_node}
       ELSE /\ next_nodes' = next_nodes \cup nodes_above_child_rank
            /\ UNCHANGED <<tree_vars, dist_to_parent_rank, predicted>>
    /\ pc' = "lineage"
    \* the locals of the loop's body are dead from here on
    /\ child_lineage' = NoNode
    /\ dist_to_current_rank' = RZero
    /\ dist_to_child_rank' = RZero
    /\ nodes_above_child_rank' = {}
    /\ visit' = NoVisit
    /\ UNCHANGED <<input_vars, label_idx, start_nodes, nodes_at_cur_rank,
                   cur_rank, immediate_child_lineages, nodes_to_process,
                   remove_vars>>

\* Line 399: the nodes found become the active set of the next rank.
NextRank ==
    /\ pc = "lineage"
    /\ immediate_child_lineages = {}
    /\ nodes_at_cur_rank' = next_nodes
    /\ cur_rank' = cur_rank + 1
    /\ pc' = "rank"
    /\ UNCHANGED <<tree_vars, dist_to_parent_rank, input_vars, label_idx,
                   start_nodes, immediate_child_lineages, next_nodes,
                   walk_vars, remove_vars, history_vars>>

(***************************************************************************)
(* mark(), lines 401-409: removing the dummy nodes, the audit, the return. *)
(***************************************************************************)
\* The end of the loop over the ranks; line 125: the nodes in preorder,
\* listed before the tree is modified.
EndOfRanks ==
    /\ pc = "rank"
    /\ cur_rank >= num_intervals
    /\ preorder' = PreorderFrom(children, <<Root>>)
    /\ preorder_idx' = 1
    /\ pc' = "remove"
    /\ UNCHANGED <<tree_vars, dist_to_parent_rank, input_vars, label_idx,
                   start_nodes, rank_vars, walk_vars, consistent, history_vars>>

\* Lines 132-135: the tree without the single-child node n, whose child
\* hangs under n's parent with the two branch lengths added.
RemoveDummyNode(t, n) ==
    LET c == t.children[n][1]
        p == t.parent[n]
    IN  [parent   |-> [t.parent EXCEPT ![c] = p, ![n] = NoNode],
         children |-> [t.children EXCEPT
                           ![n] = <<>>,
                           ![p] = RemoveFromSeq(Append(@, c), n)],
         length   |-> [t.length EXCEPT ![c] = RAdd(t.length[n], @)],
         name     |-> t.name]

\* Lines 127-135: one pass of the loop of __remove_dummy_nodes.  A node
\* with one child and no length or no parent (the root) raises: None has no
\* '+' and no append.
RemoveStep ==
    /\ pc = "remove"
    /\ preorder_idx <= Len(preorder)
    /\ LET n == preorder[preorder_idx]
           c == children[n][1]
       IN  IF Len(children[n]) # 1
           THEN /\ preorder_idx' = preorder_idx + 1
                /\ UNCHANGED <<tree_vars, pc>>
           ELSE IF length[n] = NoLength \/ length[c] = NoLength
           THEN /\ pc' = "crashed"
                /\ UNCHANGED <<tree_vars, preorder_idx>>
           ELSE IF parent[n] = NoNode
           THEN /\ length' = [length EXCEPT ![c] = RAdd(length[n], @)]
                /\ pc' = "crashed"
                /\ UNCHANGED <<parent, children, name, preorder_idx>>
           ELSE LET t == RemoveDummyNode(Tree, n)
                IN  /\ parent' = t.parent
                    /\ children' = t.children
                    /\ length' = t.length
                    /\ name' = t.name
                    /\ preorder_idx' = preorder_idx + 1
                    /\ pc' = pc
    /\ UNCHANGED <<dist_to_parent_rank, input_vars, label_idx, start_nodes,
                   rank_vars, walk_vars, preorder, consistent, history_vars>>

\* Lines 154-168: the walk from a tip to the root over the nodes of ancs,
\* cur being the rank seen last: "passed", "error" (an inconsistency) or
\* "crashed" (a ValueError of split or index).
RECURSIVE AssessPath(_, _, _)
AssessPath(nm, ancs, cur) ==
    IF ancs = <<>> THEN "passed"
    ELSE IF ~Contains(nm[Head(ancs)], "|") THEN AssessPath(nm, Tail(ancs), cur)
    ELSE LET parts == Split(nm[Head(ancs)], "|")
             ranks == Split(parts[2], ";")
             highest_rank == RankIndex(ranks[1])
         IN  IF Len(parts) # 2 \/ highest_rank = -1 THEN "crashed"
             ELSE IF highest_rank > cur THEN "error"
             ELSE AssessPath(nm, Tail(ancs), highest_rank)

\* __assess_consistency(root): what the audit ends with; it stops at the
\* first tip whose path is not consistent.
RECURSIVE AssessTips(_, _, _)
AssessTips(par, nm, tips) ==
    IF tips = <<>> THEN "passed"
    ELSE LET one == AssessPath(nm, AncestorsOf(par, Head(tips)),
                               Len(rank_prefixes) - 1)
         IN  IF one # "passed" THEN one
             ELSE AssessTips(par, nm, Tail(tips))

AssessConsistencyOf(par, ch, nm) == AssessTips(par, nm, TipsOf(ch, Root))

\* Lines 404-409: the audit, and the return of the tree.
AssessConsistency ==
    /\ pc = "remove"
    /\ preorder_idx > Len(preorder)
    /\ consistent' = AssessConsistencyOf(parent, children, name)
    /\ pc' = IF consistent' = "crashed" THEN "crashed" ELSE "done"
    /\ UNCHANGED <<tree_vars, dist_to_parent_rank, input_vars, label_idx,
                   start_nodes, rank_vars, walk_vars, preorder, preorder_idx,
                   history_vars>>

Next ==
    \/ ResolveLabel
    \/ BeginMark
    \/ ChildLineages
    \/ PickLineage
    \/ WalkStep
    \/ FinishLineage
    \/ NextRank
    \/ EndOfRanks
    \/ RemoveStep
    \/ AssessConsistency

Spec == Init /\ [][Next]_vars

(***************************************************************************)
(* What the properties below speak of.                                     *)
(***************************************************************************)
\* The nodes of the tree as it is now, and of the tree passed in.
InTree == Range(PreorderFrom(children, <<Root>>))
InputNodes == DOMAIN input.parent
InputTips == {n \in InputNodes : input.children[n] = <<>>}

\* mark() returned the tree; mark() returned None.
Returned == pc = "done"
Failed == pc = "failed"

\* The anchors: the nodes of the input the labels name.
Resolves(label) == Find(input.children, input.name, label) # NoNode
Anchors ==
    {Find(input.children, input.name, start_labels[i]) :
         i \in {j \in 1..Len(start_labels) : Resolves(start_labels[j])}}

\* Non-negative branch lengths, no name that already holds '|'.
WellFormedInput ==
    /\ \A n \in InputNodes \ {Root} : RLe(RZero, input.length[n])
    /\ \A n \in InputNodes : ~Contains(input.name[n], "|")

\* The rank indices of the tokens of a name's rank suffix, in order (empty
\* when the name has no suffix).
RankTokens(s) ==
    IF ~Contains(s, "|") THEN <<>>
    ELSE LET suffix == Split(s, "|")[2]
             toks == Split(suffix, ";")
         IN  [i \in 1..Len(toks) |-> RankIndex(toks[i])]

Labelled(n) == RankTokens(name[n]) # <<>>

\* The proper ancestors of n in the tree as it is now.
AncestorSet(n) == Range(AncestorsOf(parent, n))

(***************************************************************************)
(* C1.  When a label of start_labels names no node of the tree, mark()     *)
(* fails (returns None) and leaves the tree as it was: the names, branch   *)
(* lengths, parents and children of all nodes are those of the input.      *)
(***************************************************************************)
HasMissingLabel == \E i \in 1..Len(start_labels) : ~Resolves(start_labels[i])

C1_MissingLabelLeavesTreeUnmodified ==
    HasMissingLabel =>
        /\ pc \in {"resolve", "failed"}
        /\ Failed => /\ name = input.name
                     /\ length = input.length
                     /\ parent = input.parent
                     /\ children = input.children

(***************************************************************************)
(* C2.  After a successful mark() on a well-formed input the labelling is  *)
(* monotonic: on the path from the root to any tip, no labelled node holds *)
(* a rank shallower than a rank of a labelled ancestor, and the audit at   *)
(* the end of mark() passes.                                               *)
(***************************************************************************)
Monotonic ==
    \A n \in InTree : \A a \in AncestorSet(n) :
        \A i \in 1..Len(RankTokens(name[a])) :
            \A j \in 1..Len(RankTokens(name[n])) :
                RankTokens(name[a])[i] <= RankTokens(name[n])[j]

C2_MarkIsMonotonic ==
    (Returned /\ WellFormedInput) => (Monotonic /\ consistent = "passed")

\* The same, for anchors none of which is an ancestor of another.
NestedAnchors ==
    \E a \in Anchors, b \in Anchors :
        a \in Range(AncestorsOf(input.parent, b))

C2_MonotonicUnlessNested ==
    (Returned /\ WellFormedInput /\ ~NestedAnchors)
        => (Monotonic /\ consistent = "passed")

(***************************************************************************)
(* The name codec of the specification: a name is an optional support      *)
(* ('support:' before the taxon text, or a name that is a number), the     *)
(* taxon text, and an optional rank suffix after '|'.                      *)
(***************************************************************************)
BaseOf(s) == Split(s, "|")[1]

HasSupport(s) ==
    LET base == BaseOf(s)
    IN  IF Contains(base, ":") THEN FloatOk(Split(base, ":")[1])
        ELSE FloatOk(base)

\* The support a name holds (its integer part), 0 when it holds none.
SupportOf(s) ==
    LET base == BaseOf(s)
    IN  IF ~HasSupport(s) THEN 0
        ELSE IF Contains(base, ":") THEN FloatOf(Split(base, ":")[1]).ip
        ELSE FloatOf(base).ip

TaxonOf(s) ==
    LET base == BaseOf(s)
    IN  IF Contains(base, ":")
        THEN SubSeq(base, Len(Split(base, ":")[1]) + 2, Len(base))
        ELSE IF FloatOk(base) THEN <<>>
        ELSE base

\* A walk has just called _mark_rank on visit.node.
Visited == visit.node # NoNode /\ visit.rank # -1
SpeciesToken == <<"S", "_", "_">>
SpeciesRank == 6

\* A node's name as it was passed in, unnamed nodes having the empty name.
InputName(n) == IF input.name[n] = None THEN <<>> ELSE input.name[n]

(***************************************************************************)
(* C3.  Marking is refused as a no-op (the name is unchanged, the call     *)
(* does not fail) whenever the node is a tip, the rank is S__, or the      *)
(* node's support is below min_support.  So no tip gains a rank suffix     *)
(* from propagation, and no suffix propagation writes holds S__.           *)
(***************************************************************************)
Refused == name[visit.node] = visit.before /\ pc \notin {"exit", "crashed"}

PropagationSparesTipsAndSpecies ==
    /\ \A n \in InputTips \ Anchors : name[n] \in {input.name[n], InputName(n)}
    /\ \A n \in DOMAIN name \ Anchors :
           (n \in InputNodes => ~Contains(input.name[n], "|"))
               => \A i \in 1..Len(RankTokens(name[n])) :
                      RankTokens(name[n])[i] # SpeciesRank

UltrametricScenario ==
    /\ input = UltrametricTree
    /\ start_labels = << <<"r", "o", "o", "t">> >>
    /\ start_rank = 0
    /\ min_support = 0

\* The rank a node resolved to: an anchor's is the start rank, another
\* node's is the rank the walk that reached it gave to _mark_rank.
ResolvedRank(n) == IF n \in Anchors THEN start_rank ELSE predicted[n]

C4_UltrametricRanks ==
    (UltrametricScenario /\ Returned) =>
        /\ ResolvedRank(1) = 0
        /\ RankTokens(name[1]) = <<0>>
        /\ ResolvedRank(2) = 1
        /\ ResolvedRank(5) = SpeciesRank
        /\ \A tip \in {3, 4, 6, 7} : ResolvedRank(tip) = SpeciesRank
        /\ Cardinality(InTree) = 7
        /\ Cardinality({n \in InTree : is_tip(children, n)}) = 4

\* What the code does there: t2 is given F__ (and labelled with the
\* back-filled run P__;C__;O__;F__), the tips are given G__ and left alone.
C4_UltrametricRanksOfTheCode ==
    (UltrametricScenario /\ Returned) =>
        /\ ResolvedRank(1) = 0
        /\ RankTokens(name[1]) = <<0>>
        /\ ResolvedRank(2) = 1
        /\ RankTokens(name[2]) = <<1>>
        /\ ResolvedRank(5) = 4
        /\ RankTokens(name[5]) = <<1, 2, 3, 4>>
        /\ \A tip \in {3, 4, 6, 7} :
               ResolvedRank(tip) = 5 /\ name[tip] = input.name[tip]
        /\ Cardinality(InTree) = 7
        /\ Cardinality({n \in InTree : is_tip(children, n)}) = 4

(***************************************************************************)
(* C5.  Removing the dummy nodes leaves no node with exactly one child,    *)
(* whatever the tree (also when the root has a single child), and doing it *)
(* again changes nothing.  So a tree mark() returns has no dummy node and  *)
(* no node with one child, and still has every node of the input that had  *)
(* no child or more than one.                                              *)
(***************************************************************************)
\* __remove_dummy_nodes has ended: its loop is over, or it raised.
RemovalEnded ==
    /\ preorder # <<>>
    /\ preorder_idx > Len(preorder) \/ (pc = "crashed" /\ consistent = "not run")

NoSingleChild == \A n \in InTree : Len(children[n]) # 1

\* __remove_dummy_nodes run on the tree t over the nodes of todo.
RECURSIVE RemoveAll(_, _)
RemoveAll(t, todo) ==
    IF todo = <<>> THEN t
    ELSE IF Len(t.children[Head(todo)]) = 1 /\ t.parent[Head(todo)] # NoNode
         THEN RemoveAll(RemoveDummyNode(t, Head(todo)), Tail(todo))
         ELSE RemoveAll(t, Tail(todo))

C5_RemovalLeavesNoSingleChild ==
    /\ RemovalEnded => NoSingleChild
    /\ Returned =>
           /\ RemoveAll(Tree, PreorderFrom(children, <<Root>>)) = Tree
           /\ InTree \subseteq InputNodes
           /\ \A n \in InputNodes : Len(input.children[n]) # 1 => n \in InTree

\* The same for the trees whose root does not have exactly one child.
C5_RemovalUnlessRootHasOneChild ==
    Len(input.children[Root]) # 1 => C5_RemovalLeavesNoSingleChild

(***************************************************************************)
(* C6.  The path length is preserved: for every tip of the input, the sum  *)
(* of the branch lengths from the root to the tip is, after every          *)
(* insertion of a dummy node, after every removal of one, and so in the    *)
(* tree mark() returns, what it was in the input.                          *)
(***************************************************************************)
PathLength(par, len, tip) == accumulate_to_ancestor(par, len, tip, Root)

C6_PathLengthPreserved ==
    \A tip \in InputTips :
        PathLength(parent, length, tip)
            = PathLength(input.parent, input.length, tip)

\* mark() returned a tree into which it had put dummy nodes on branches of
\* positive length.
C6_Witness ==
    /\ Returned
    /\ \E n \in DOMAIN parent \ InputNodes : RLt(RZero, length[n])

(***************************************************************************)
(* C7.  In the walk of a lineage head's subtree at rank r, a node at the   *)
(* cumulative distance d (the head's distance to the parent rank plus the  *)
(* branch lengths from the head down to the node) is marked at rank r when *)
(* d <= D/2, at rank r + 1 when D/2 < d <= D, D being dist_to_child_rank,  *)
(* and is not marked, and none of its descendants visited, when d > D.     *)
(* Both comparisons are inclusive.                                         *)
(***************************************************************************)
\* The cumulative distance of a node of the head's subtree, from the tree.
CumulativeDistance(n) ==
    RAdd(RAdd(dist_to_parent_rank[parent[child_lineage]],
              length[child_lineage]),
         accumulate_to_ancestor(parent, length, n, child_lineage))

Twice(x) == RAdd(x, x)

\* The deepest rank of a name's suffix, -1 when it has none.
DeepestRank(s) ==
    IF RankTokens(s) = <<>> THEN -1 ELSE RankTokens(s)[Len(RankTokens(s))]

InWalk == pc \in {"walk", "exit", "crashed"} /\ child_lineage # NoNode

C7_RankByDistance ==
    /\ (InWalk /\ visit.node # NoNode) =>
           LET d == CumulativeDistance(visit.node)
               D == dist_to_child_rank
           IN  /\ visit.dist = d
               /\ RLe(Twice(d), D) => visit.rank = cur_rank
               /\ (RLt(D, Twice(d)) /\ RLe(d, D)) => visit.rank = cur_rank + 1
               /\ RLt(D, d) => /\ visit.rank = -1
                               /\ name[visit.node] = visit.before
                               /\ visit.node \notin nodes_above_child_rank
               /\ visit.st = "marked" =>
                      DeepestRank(name[visit.node]) = visit.rank
    /\ InWalk =>
           /\ \A m \in Range(nodes_to_process) :
                  m = child_lineage \/ parent[m] \in nodes_above_child_rank
           /\ \A m \in nodes_above_child_rank :
                  RLe(CumulativeDistance(m), dist_to_child_rank)

\* A walk marked a node that lies at exactly half of dist_to_child_rank,
\* away from the current rank, with the current rank.
C7_Witness ==
    /\ pc = "walk"
    /\ visit.st = "marked"
    /\ RLt(RZero, visit.dist)
    /\ Twice(visit.dist) = dist_to_child_rank
    /\ DeepestRank(name[visit.node]) = cur_rank

\* A walk gave a node at exactly dist_to_child_rank the next rank.
C7_WitnessAtChildRank ==
    /\ pc = "walk"
    /\ visit.st = "marked"
    /\ RLt(RZero, visit.dist)
    /\ visit.dist = dist_to_child_rank
    /\ DeepestRank(name[visit.node]) = cur_rank + 1

(***************************************************************************)
(* C8.  Marking only adds the rank suffix to a name: when an internal node *)
(* whose name has no '|' and whose support passes min_support is marked,   *)
(* the new name decodes to the same optional support and the same taxon    *)
(* text as the old one, each once, followed by one '|' and the rank tokens *)
(* joined by ';' -- for empty names, taxon-only names, support-only names  *)
(* and 'support:taxon' names.                                              *)
(***************************************************************************)
Marked == pc = "walk" /\ visit.st = "marked"

WellFormedSuffix(s) ==
    /\ Len(Split(s, "|")) = 2
    /\ RankTokens(s) # <<>>
    /\ \A i \in 1..Len(RankTokens(s)) : RankTokens(s)[i] # -1

C8_MarkingOnlyAddsSuffix ==
    Marked =>
        /\ HasSupport(name[visit.node]) = HasSupport(visit.before)
        /\ SupportOf(name[visit.node]) = SupportOf(visit.before)
        /\ TaxonOf(name[visit.node]) = TaxonOf(visit.before)
        /\ WellFormedSuffix(name[visit.node])

\* The same for the names that hold a support, or nothing at all.
C8_SuffixOnlyUnlessTaxonOnly ==
    (Marked /\ (HasSupport(visit.before) \/ visit.before = <<>>)) =>
        /\ SupportOf(name[visit.node]) = SupportOf(visit.before)
        /\ TaxonOf(name[visit.node]) = TaxonOf(visit.before)
        /\ WellFormedSuffix(name[visit.node])

(***************************************************************************)
(* C9.  Back-filling skips no rank level on a path: when a node is marked  *)
(* with rank r and its nearest already-labelled proper ancestor has the    *)
(* deepest rank p < r, the node's suffix is the run of tokens p+1 .. r in  *)
(* rank order (0 .. r when no ancestor is labelled).  So in the tree       *)
(* mark() returns, the rank tokens of the labelled nodes of every          *)
(* root-to-tip path, from the shallowest to the deepest, are consecutive   *)
(* rank indices, none missing and none repeated by a back-fill.            *)
(***************************************************************************)
\* The deepest rank of the first labelled node of a sequence of ancestors
\* (nearest first), -1 when there is none; with branching_only, the nodes
\* that have exactly one child are passed over.
RECURSIVE DeepestRankAbove(_, _)
DeepestRankAbove(ancestors, branching_only) ==
    IF ancestors = <<>> THEN -1
    ELSE IF /\ Labelled(ancestors[1])
            /\ (branching_only => Len(children[ancestors[1]]) # 1)
         THEN DeepestRank(name[ancestors[1]])
         ELSE DeepestRankAbove(Tail(ancestors), branching_only)

Run(from, to) == [i \in 1..(to - from + 1) |-> from + i - 1]

\* The tokens of the labelled nodes of the path from the root to n.
RECURSIVE PathTokens(_)
PathTokens(n) ==
    (IF parent[n] = NoNode THEN <<>> ELSE PathTokens(parent[n]))
        \o RankTokens(name[n])

\* The tokens of a path cover a range of rank indices with no level missing.
Covering(toks) ==
    \A i \in 1..Len(toks) : \A j \in 1..Len(toks) :
        \A level \in toks[i]..toks[j] : level \in Range(toks)

\* No run of several tokens starts at or above a level the path has already.
NoBackFillRepeats(n) ==
    \A a \in AncestorSet(n) :
        (Len(RankTokens(name[n])) >= 2 /\ Labelled(a)) =>
            DeepestRank(name[a]) < RankTokens(name[n])[1]

ContiguousPaths ==
    /\ \A tip \in InputTips : Covering(PathTokens(tip))
    /\ \A n \in InTree : NoBackFillRepeats(n)

BackFilledFrom(branching_only) ==
    LET p == DeepestRankAbove(AncestorsOf(parent, visit.node),
                              branching_only)
    IN  p < visit.rank =>
            RankTokens(name[visit.node]) = Run(p + 1, visit.rank)

InputHasLabel == \E n \in InputNodes : Contains(InputName(n), "|")

C10_ExitOnlyOnLabelledInput == pc = "exit" => InputHasLabel

\* With no anchor under another one, the exit needs a label in the input.
C10_ExitNeedsNestingOrLabelledInput ==
    pc = "exit" => (InputHasLabel \/ NestedAnchors)

(***************************************************************************)
(* C11.  At the start of every rank iteration of mark(), every node of the *)
(* active set (the anchors, the nodes a walk visited within the threshold, *)
(* the dummy nodes) has a distance to its parent rank <= 0.  So, for an    *)
(* input with non-negative branch lengths, the 'node is at an unexpected   *)
(* position relative to its parent rank' branch is never taken, and mark() *)
(* never returns a failure once it has begun to insert dummy nodes or to   *)
(* rewrite names.                                                          *)
(***************************************************************************)
NonNegativeLengths ==
    \A n \in InputNodes \ {Root} : RLe(RZero, input.length[n])

\* The start of a rank iteration (line 313), the active set at or above the
\* current rank.
ActiveSetAtOrAboveRank ==
    pc = "rank" =>
        \A n \in nodes_at_cur_rank : RLe(dist_to_parent_rank[n], RZero)

\* mark() returned None from line 331: every label resolves, so it did not
\* return from line 301.
UnexpectedPosition == Failed /\ ~HasMissingLabel

\* The tree as it was passed in: no name rewritten, no node inserted.
Untouched ==
    /\ name = input.name
    /\ length = input.length
    /\ parent = input.parent
    /\ children = input.children

C11_NoFailureOnceModified ==
    NonNegativeLengths =>
        /\ ActiveSetAtOrAboveRank
        /\ ~UnexpectedPosition
        /\ Failed => Untouched

\* The invariant and the branch alone.
C11_UnexpectedPositionNeverTaken ==
    NonNegativeLengths => (ActiveSetAtOrAboveRank /\ ~UnexpectedPosition)

\* A rank iteration after the first one starts with an active set that holds
\* a dummy node and a node a walk left strictly above the rank.
C11_ActiveSetReached ==
    /\ pc = "rank"
    /\ cur_rank > start_rank
    /\ \E n \in nodes_at_cur_rank : n \notin InputNodes
    /\ \E n \in nodes_at_cur_rank : RLt(dist_to_parent_rank[n], RZero)

=============================================================================
